---- MODULE Spec2Model ----
(***************************************************************************)
(* fancyflags/_definitions.py: DEFINE_dict, the shared dict, the leaf      *)
(* flags (_ItemFlag, _MultiFlag) that write their value through to it and  *)
(* the root _DictFlag whose value is the shared dict.                      *)
(*                                                                         *)
(* Python objects that are compared by identity (dicts) live in `heap`, a  *)
(* sequence of dicts; a dict's identity is its index.  Strings that are    *)
(* joined or compared as flag names are sequences of characters.           *)
(***************************************************************************)
EXTENDS Integers, Sequences, FiniteSets, TLC

(* ---------------------------------------------------------------- values *)

\* Python values, one record shape for all of them.
NoneV == [tag |-> "none", n |-> 0, s |-> "", l |-> <<>>]
IntV(n) == [tag |-> "int", n |-> n, s |-> "", l |-> <<>>]
StrV(s) == [tag |-> "str", n |-> 0, s |-> s, l |-> <<>>]
\* a list of strings
ListV(l) == [tag |-> "list", n |-> 0, s |-> "", l |-> l]
\* a reference to the dict heap[id]
DictRef(id) == [tag |-> "dict", n |-> id, s |-> "", l |-> <<>>]

SEPARATOR == <<".">>
_EMPTY == StrV("")

\* A fresh Python dict, and d[k] = v.
EmptyDict == [k \in {} |-> NoneV]
Put(d, k, v) == [x \in (DOMAIN d) \cup {k} |-> IF x = k THEN v ELSE d[x]]

(* --------------------------------------------------------------- parsers *)

\* int(text) on the texts the model supplies; "x" is not a number.
IsNumeral(s) == s \in {"1", "2", "7"}
StrToInt(s) == CASE s = "1" -> 1 [] s = "2" -> 2 [] s = "7" -> 7

\* parser.parse(argument) succeeds: flags.IntegerParser takes an int or a
\* numeral, flags.ArgumentParser takes any str and nothing else.
ParserAccepts(parser, v) ==
  IF parser = "IntegerParser"
    THEN v.tag = "int" \/ (v.tag = "str" /\ IsNumeral(v.s))
    ELSE v.tag = "str"

ParserParse(parser, v) ==
  IF parser = "IntegerParser" /\ v.tag = "str" THEN IntV(StrToInt(v.s)) ELSE v

(* ------------------------------------------------------ definition trees *)

\* A node of the definition passed to DEFINE_dict: an ff.Item, an
\* ff.MultiItem, a dict of nodes (items in document order), or anything else.
Node(kind, parser, default, items) ==
  [kind |-> kind, parser |-> parser, default |-> default, items |-> items]

\* Item.__init__: the default is parsed when the Item is built.
Item(default, parser) ==
  Node("Item", parser,
       IF default = NoneV THEN NoneV ELSE ParserParse(parser, default), <<>>)

\* MultiItem.__init__: a single default becomes a one-element list.
MultiItem(default, parser) ==
  Node("MultiItem", parser,
       IF default = NoneV THEN NoneV
       ELSE IF default.tag = "list" THEN default
       ELSE ListV(<<ParserParse(parser, default).s>>), <<>>)

Integer(default) == Item(default, "IntegerParser")
MultiString(default) == MultiItem(default, "ArgumentParser")
DictNode(items) == Node("dict", "", NoneV, items)
\* a value that is neither a dict nor an Item, e.g. a bare number
OtherNode == Node("other", "", NoneV, <<>>)

\* The definitions DEFINE_dict is called with: top-level keys "a" and "a.b",
\* a nested dict under "a" with keys "b" and "c"; every position holds any
\* leaf descriptor, an invalid value, or nothing.
KeyA == <<"a">>
KeyB == <<"b">>
KeyC == <<"c">>
KeyAB == <<"a", ".", "b">>
flag_name == <<"r">>

Descriptors == {Integer(NoneV), Integer(IntV(5)), Integer(StrV("7")),
                MultiString(StrV("p"))}
Entry(key, S) == {<<>>} \cup {<<[key |-> key, val |-> v]>> : v \in S}
InnerDicts ==
  {DictNode(x \o y) : x \in Entry(KeyB, Descriptors \cup {OtherNode}),
                      y \in Entry(KeyC, Descriptors \cup {OtherNode})}
Definitions ==
  {x \o y : x \in Entry(KeyA, Descriptors \cup {OtherNode} \cup InnerDicts),
            y \in Entry(KeyAB, Descriptors \cup {OtherNode})}

(* ------------------------------------------------------ _extract_defaults *)

RECURSIVE _extract_defaults(_, _)
RECURSIVE ExtractLoop(_, _, _, _)

\* The loop of _extract_defaults over mapping.items(), from item i on, with
\* `result` being heap h's dict id.  Returns the heap, the dict built and the
\* exception raised ("" when none).
ExtractLoop(h, id, mapping, i) ==
  IF i > Len(mapping) THEN [err |-> "", heap |-> h, id |-> id]
  ELSE LET key == mapping[i].key
           value == mapping[i].val
       IN IF value.kind \in {"Item", "MultiItem"}
            THEN ExtractLoop([h EXCEPT ![id] = Put(@, key, value.default)],
                             id, mapping, i + 1)
          ELSE IF value.kind = "dict"
            THEN LET r == _extract_defaults(h, value.items)
                 IN IF r.err # "" THEN [err |-> r.err, heap |-> h, id |-> id]
                    ELSE ExtractLoop(
                           [r.heap EXCEPT ![id] = Put(@, key, DictRef(r.id))],
                           id, mapping, i + 1)
          ELSE [err |-> "TypeError", heap |-> h, id |-> id]

\* _extract_defaults passing over the values it does not recognise.
RECURSIVE ExtractLoopSkipping(_, _, _, _)
ExtractLoopSkipping(h, id, mapping, i) ==
  IF i > Len(mapping) THEN [err |-> "", heap |-> h, id |-> id]
  ELSE LET key == mapping[i].key
           value == mapping[i].val
       IN IF value.kind \in {"Item", "MultiItem"}
            THEN ExtractLoopSkipping(
                   [h EXCEPT ![id] = Put(@, key, value.default)],
                   id, mapping, i + 1)
          ELSE IF value.kind = "dict"
            THEN LET r == ExtractLoopSkipping(Append(h, EmptyDict), Len(h) + 1,
                                              value.items, 1)
                 IN ExtractLoopSkipping(
                      [r.heap EXCEPT ![id] = Put(@, key, DictRef(r.id))],
                      id, mapping, i + 1)
          ELSE ExtractLoopSkipping(h, id, mapping, i + 1)

_extract_defaults_skipping(h, mapping) ==
  ExtractLoopSkipping(Append(h, EmptyDict), Len(h) + 1, mapping, 1)

_extract_defaults(h, mapping) ==
  ExtractLoop(Append(h, EmptyDict), Len(h) + 1, mapping, 1)

(* ------------------------------------------------------------ namespaces *)

RECURSIVE Join(_)
\* SEPARATOR.join(namespace)
Join(namespace) ==
  IF Len(namespace) = 1 THEN namespace[1]
  ELSE namespace[1] \o SEPARATOR \o Join(Tail(namespace))

RECURSIVE recursively_define_flags(_, _)
RECURSIVE DefineLoop(_, _, _)

\* The define() calls recursively_define_flags makes, in order: the
\* namespace and the node define() is called on.
DefineLoop(namespace, items, i) ==
  IF i > Len(items) THEN <<>>
  ELSE recursively_define_flags(Append(namespace, items[i].key), items[i].val)
       \o DefineLoop(namespace, items, i + 1)

recursively_define_flags(namespace, maybe_definition) ==
  IF maybe_definition.kind = "dict"
    THEN DefineLoop(namespace, maybe_definition.items, 1)
    ELSE <<[namespace |-> namespace, item |-> maybe_definition]>>

(* ----------------------------------------------------------------- flags *)

\* A registered flag: its class, the dict it holds in _shared_dict, its
\* namespace, parser, value, default and the absl counter `present`.
Flag(cls, shared_dict, namespace, parser, default) ==
  [cls |-> cls, shared_dict |-> shared_dict, namespace |-> namespace,
   parser |-> parser, value |-> default, default |-> default, present |-> 0]

\* absl Flag._parse of a leaf flag accepts the argument.
LeafParseAccepts(f, argument) ==
  IF f.cls = "_MultiFlag"
    THEN \/ argument.tag = "str" /\ ParserAccepts(f.parser, argument)
         \/ argument.tag = "list"
            /\ \A i \in 1..Len(argument.l) :
                 ParserAccepts(f.parser, StrV(argument.l[i]))
    ELSE argument = NoneV \/ ParserAccepts(f.parser, argument)

\* absl Flag._parse / MultiFlag._parse: the parsed value; a _MultiFlag turns
\* one argument into a one-element list.
LeafParse(f, argument) ==
  IF f.cls = "_MultiFlag"
    THEN IF argument.tag = "list" THEN argument
         ELSE ListV(<<ParserParse(f.parser, argument).s>>)
    ELSE IF argument = NoneV THEN NoneV ELSE ParserParse(f.parser, argument)

RECURSIVE Descend(_, _, _)
\* d = d[name] for each name of names, starting at dict id.
Descend(h, id, names) ==
  IF names = <<>> THEN id ELSE Descend(h, h[id][names[1]].n, Tail(names))

\* _update_shared_dict descending through the first segment only.
_update_shared_dict_first_segment(h, f) ==
  LET n == Len(f.namespace)
      d == Descend(h, f.shared_dict, SubSeq(f.namespace, 1, 1))
  IN [h EXCEPT ![d] = Put(@, f.namespace[n], f.value)]

\* _ItemFlag._update_shared_dict and _MultiFlag._update_shared_dict.
_update_shared_dict(h, f) ==
  LET n == Len(f.namespace)
      d == Descend(h, f.shared_dict, SubSeq(f.namespace, 1, n - 1))
  IN [h EXCEPT ![d] = Put(@, f.namespace[n], f.value)]

\* A value setter that does not update the shared dict.
value_setter_no_update(h, f, value) ==
  [flag |-> [f EXCEPT !.value = value], heap |-> h]

\* The value setter of _ItemFlag and _MultiFlag: the new flag and heap.
value_setter(h, f, value) ==
  LET g == [f EXCEPT !.value = value]
  IN [flag |-> g, heap |-> _update_shared_dict(h, g)]

\* _ItemFlag.parse without the update of the shared dict.
_ItemFlag_parse_no_update(h, f, argument) ==
  [flag |-> [f EXCEPT !.value = LeafParse(f, argument), !.present = @ + 1],
   heap |-> h]

\* _ItemFlag.parse: absl Flag.parse sets the parsed value and counts the
\* occurrence, then the shared dict is updated.
_ItemFlag_parse(h, f, argument) ==
  LET g == [f EXCEPT !.value = LeafParse(f, argument), !.present = @ + 1]
  IN [flag |-> g, heap |-> _update_shared_dict(h, g)]

\* _MultiFlag.parse replacing the value at every occurrence.
_MultiFlag_parse_replace(h, f, argument) ==
  LET g == [f EXCEPT !.value = LeafParse(f, argument), !.present = @ + 1]
  IN [flag |-> g, heap |-> _update_shared_dict(h, g)]

\* _MultiFlag.parse: absl MultiFlag.parse extends the value when the flag
\* was already present and replaces it otherwise.
_MultiFlag_parse(h, f, argument) ==
  LET new_values == LeafParse(f, argument)
      g == [f EXCEPT !.value = IF f.present > 0
                                 THEN ListV(f.value.l \o new_values.l)
                                 ELSE new_values,
                     !.present = @ + Len(new_values.l)]
  IN [flag |-> g, heap |-> _update_shared_dict(h, g)]

\* _DictFlag._parse accepting any dict.
_DictFlag__parse_any_dict(f, value) ==
  IF value.tag = "dict" THEN [err |-> "", value |-> value]
  ELSE IF value = _EMPTY THEN [err |-> "", value |-> DictRef(f.shared_dict)]
  ELSE [err |-> "IllegalFlagValueError", value |-> f.value]

\* _DictFlag._parse without the test for the empty string.
_DictFlag__parse_identity_only(f, value) ==
  IF value = DictRef(f.shared_dict)
    THEN [err |-> "", value |-> DictRef(f.shared_dict)]
    ELSE [err |-> "IllegalFlagValueError", value |-> f.value]

\* _DictFlag._parse: the value the flag takes, or the error raised.
_DictFlag__parse(f, value) ==
  IF value = DictRef(f.shared_dict) \/ value = _EMPTY
    THEN [err |-> "", value |-> DictRef(f.shared_dict)]
    ELSE [err |-> "IllegalFlagValueError", value |-> f.value]

\* define() building the flag without the descriptor's default.
NewLeafFlag_no_default(h, shared_dict, namespace, item) ==
  value_setter(
    h,
    Flag(IF item.kind = "MultiItem" THEN "_MultiFlag" ELSE "_ItemFlag",
         shared_dict, namespace, item.parser, NoneV),
    NoneV)

\* Item.define / MultiItem.define build the flag: absl Flag.__init__ parses
\* the default and assigns it through the value setter.
NewLeafFlag(h, shared_dict, namespace, item) ==
  LET f0 == Flag(IF item.kind = "MultiItem" THEN "_MultiFlag" ELSE "_ItemFlag",
                 shared_dict, namespace, item.parser, NoneV)
      default == IF item.default = NoneV THEN NoneV
                 ELSE LeafParse(f0, item.default)
  IN value_setter(h, [f0 EXCEPT !.default = default], default)

\* DEFINE_flag of flags built with allow_override: the later flag replaces
\* the earlier one of the same name.
DEFINE_flag_allow_override(registry, f) ==
  [err |-> "", registry |-> Put(registry, Join(f.namespace), f)]

\* flags.DEFINE_flag: registering a name twice raises DuplicateFlagError.
DEFINE_flag(registry, f) ==
  IF Join(f.namespace) \in DOMAIN registry
    THEN [err |-> "DuplicateFlagError", registry |-> registry]
    ELSE [err |-> "", registry |-> Put(registry, Join(f.namespace), f)]

(* ----------------------------------------------------------------- state *)

VARIABLES
  args,       \* the positional arguments of the DEFINE_dict call
  kwargs,     \* its keyword arguments: the definition, items in order
  pc,         \* "start", "define_flags", "ready", "parsing", "parsed", "raised"
  heap,       \* the dicts, by identity
  shared,     \* the identity of shared_dict (0 before it is built)
  todo,       \* the define() calls define_flags has still to make
  registry,   \* flag_values: flag name -> flag
  lastOp,     \* the last operation
  supplied,   \* per leaf flag, the arguments parsed in the parsing pass
  nops        \* the number of operations after DEFINE_dict returned

vars == <<args, kwargs, pc, heap, shared, todo, registry, lastOp, supplied,
          nops>>

\* the operations after the definition that one behaviour performs
MaxOps == 4

\* an operation: what, on which flag, with which argument, the error raised
Op(op, name, arg, err) == [op |-> op, name |-> name, arg |-> arg, err |-> err]

EmptyRegistry == [k \in {} |-> Flag("", 0, <<>>, "", NoneV)]

\* Before the call: DEFINE_dict is called with no positional argument or with
\* the root name, and with any of the definitions; flag_values is empty.
Init ==
  /\ args \in {<<>>, <<flag_name>>}
  /\ kwargs \in Definitions
  /\ pc = "start"
  /\ heap = <<>>
  /\ shared = 0
  /\ todo = <<>>
  /\ registry = EmptyRegistry
  /\ lastOp = Op("", <<>>, NoneV, "")
  /\ supplied = [k \in {} |-> <<>>]
  /\ nops = 0

Raise(op, name, err) ==
  /\ pc' = "raised"
  /\ lastOp' = Op(op, name, NoneV, err)

(* ------------------------------------------------------------ DEFINE_dict *)

\* DEFINE_dict up to the first define() call of define_flags: the argument
\* checks, then _extract_defaults builds shared_dict.
DEFINE_dict ==
  /\ pc = "start"
  /\ IF args = <<>> \/ kwargs = <<>>
       THEN /\ Raise("DEFINE_dict", <<>>, "ValueError")
            /\ UNCHANGED <<heap, shared, todo>>
       ELSE LET r == _extract_defaults(heap, kwargs)
            IN IF r.err # ""
                 THEN /\ Raise("DEFINE_dict", <<>>, r.err)
                      /\ UNCHANGED <<heap, shared, todo>>
                 ELSE /\ heap' = r.heap
                      /\ shared' = r.id
                      /\ todo' = recursively_define_flags(<<args[1]>>,
                                                          DictNode(kwargs))
                      /\ pc' = "define_flags"
                      /\ lastOp' = Op("_extract_defaults", <<>>, NoneV, "")
  /\ UNCHANGED <<args, kwargs, registry, supplied, nops>>

\* One maybe_definition.define(namespace, {name: shared_dict}, flag_values)
\* of recursively_define_flags: the flag is built, which writes its default
\* into the shared dict, and then registered.
define ==
  /\ pc = "define_flags"
  /\ todo # <<>>
  /\ LET namespace == todo[1].namespace
         item == todo[1].item
         h1 == Append(heap, Put(EmptyDict, args[1], DictRef(shared)))
     IN IF item.kind \notin {"Item", "MultiItem"}
          THEN /\ Raise("define", Join(namespace), "AttributeError")
               /\ UNCHANGED <<heap, registry, todo, supplied>>
          ELSE LET r == NewLeafFlag(h1, Len(h1), namespace, item)
                   d == DEFINE_flag(registry, r.flag)
               IN /\ heap' = r.heap
                  /\ IF d.err # ""
                       THEN /\ Raise("define", Join(namespace), d.err)
                            /\ UNCHANGED <<registry, todo, supplied>>
                       ELSE /\ registry' = d.registry
                            /\ todo' = Tail(todo)
                            /\ supplied' = Put(supplied, Join(namespace), <<>>)
                            /\ lastOp' = Op("define", Join(namespace), NoneV, "")
                            /\ pc' = pc
  /\ UNCHANGED <<args, kwargs, shared, nops>>

\* The end of DEFINE_dict: the _DictFlag is built around shared_dict and
\* registered under the root name.
DEFINE_dict_return ==
  /\ pc = "define_flags"
  /\ todo = <<>>
  /\ LET f0 == Flag("_DictFlag", shared, <<args[1]>>, "ArgumentParser", NoneV)
         v == _DictFlag__parse(f0, DictRef(shared))
         f == [f0 EXCEPT !.default = v.value, !.value = v.value]
         d == DEFINE_flag(registry, f)
     IN IF v.err # "" \/ d.err # ""
          THEN /\ Raise("DEFINE_dict", args[1],
                        IF v.err # "" THEN v.err ELSE d.err)
               /\ UNCHANGED registry
          ELSE /\ registry' = d.registry
               /\ pc' = "ready"
               /\ lastOp' = Op("DEFINE_dict", args[1], NoneV, "")
  /\ UNCHANGED <<args, kwargs, heap, shared, todo, supplied, nops>>

(* ------------------------------------------------- after the definition *)

Returned == pc \in {"ready", "parsing", "parsed"}
LeafNames == {name \in DOMAIN registry : registry[name].cls # "_DictFlag"}

\* the texts a command line supplies, the values a program assigns to a
\* leaf flag, and the value it writes through the handle
Texts == {"1", "2", "x"}
AssignValues(f) == IF f.cls = "_MultiFlag" THEN {ListV(<<"z">>)} ELSE {IntV(9)}
HandleValues == {IntV(8)}

\* The parsing pass is over once the program itself acts again; there is one
\* pass, so a list a repeatable flag extends is always one its own parse
\* built, and lists can be values rather than objects of the heap.
AfterProgramStep == IF pc = "ready" THEN "ready" ELSE "parsed"

\* --<name>=<text> on the command line: flag.parse(text) of a leaf flag.
parse ==
  /\ pc \in {"ready", "parsing"}
  /\ nops < MaxOps
  /\ \E name \in LeafNames, text \in Texts :
       LET f == registry[name]
           argument == StrV(text)
       IN IF ~LeafParseAccepts(f, argument)
            THEN /\ pc' = "parsed"
                 /\ lastOp' = Op("parse", name, argument, "IllegalFlagValueError")
                 /\ UNCHANGED <<heap, registry, supplied>>
            ELSE LET r == IF f.cls = "_MultiFlag"
                            THEN _MultiFlag_parse(heap, f, argument)
                            ELSE _ItemFlag_parse(heap, f, argument)
                 IN /\ heap' = r.heap
                    /\ registry' = [registry EXCEPT ![name] = r.flag]
                    /\ supplied' = [supplied EXCEPT ![name] = Append(@, text)]
                    /\ pc' = "parsing"
                    /\ lastOp' = Op("parse", name, argument, "")
  /\ nops' = nops + 1
  /\ UNCHANGED <<args, kwargs, shared, todo>>

\* An override of the root flag: flag.parse(value) of the _DictFlag, with the
\* empty string, another string, shared_dict itself, or a new dict with the
\* same items as shared_dict (the id past the end of the heap).
RootInputs == {_EMPTY, StrV("x"), DictRef(shared), DictRef(Len(heap) + 1)}

parse_root ==
  /\ pc \in {"ready", "parsing"}
  /\ nops < MaxOps
  /\ \E value \in RootInputs :
       LET f == registry[args[1]]
           r == _DictFlag__parse(f, value)
       IN IF r.err # ""
            THEN /\ pc' = "parsed"
                 /\ lastOp' = Op("parse_root", args[1], value, r.err)
                 /\ UNCHANGED <<heap, registry>>
            ELSE /\ registry' = [registry EXCEPT ![args[1]] =
                                   [f EXCEPT !.value = r.value,
                                             !.present = @ + 1]]
                 /\ heap' = IF value.tag = "dict" /\ value.n > Len(heap)
                              THEN Append(heap, heap[shared]) ELSE heap
                 /\ pc' = "parsing"
                 /\ lastOp' = Op("parse_root", args[1], value, "")
  /\ nops' = nops + 1
  /\ UNCHANGED <<args, kwargs, shared, todo, supplied>>

\* FLAGS[name].value = v in the program, for a leaf flag.
set_value ==
  /\ Returned
  /\ nops < MaxOps
  /\ \E name \in LeafNames :
       \E v \in AssignValues(registry[name]) :
         LET r == value_setter(heap, registry[name], v)
         IN /\ heap' = r.heap
            /\ registry' = [registry EXCEPT ![name] = r.flag]
            /\ lastOp' = Op("set_value", name, v, "")
  /\ pc' = AfterProgramStep
  /\ nops' = nops + 1
  /\ UNCHANGED <<args, kwargs, shared, todo, supplied>>

\* holder.value[k1]...[kn] = v in the program: an item assignment in the
\* dict the root flag's value refers to, at a leaf's path.
handle_write ==
  /\ Returned
  /\ nops < MaxOps
  /\ \E name \in LeafNames, v \in HandleValues :
       LET path == Tail(registry[name].namespace)
           n == Len(path)
           d == Descend(heap, registry[args[1]].value.n, SubSeq(path, 1, n - 1))
       IN /\ heap' = [heap EXCEPT ![d] = Put(@, path[n], v)]
          /\ lastOp' = Op("handle_write", name, v, "")
  /\ pc' = AfterProgramStep
  /\ nops' = nops + 1
  /\ UNCHANGED <<args, kwargs, shared, todo, registry, supplied>>

Next ==
  \/ DEFINE_dict
  \/ define
  \/ DEFINE_dict_return
  \/ parse
  \/ parse_root
  \/ set_value
  \/ handle_write

Spec == Init /\ [][Next]_vars

\* The same program when nothing writes into the dict through the handle.
NextOptions ==
  \/ DEFINE_dict
  \/ define
  \/ DEFINE_dict_return
  \/ parse
  \/ parse_root
  \/ set_value

SpecOptions == Init /\ [][NextOptions]_vars

(* ------------------------------------------------------------- observers *)

\* d[k1]...[kn] read from dict id of heap h.
Lookup(h, id, path) ==
  h[Descend(h, id, SubSeq(path, 1, Len(path) - 1))][path[Len(path)]]

\* The path of a leaf flag inside shared_dict, and the entry stored there.
PathOf(name) == Tail(registry[name].namespace)
MapAt(name) == Lookup(heap, shared, PathOf(name))

RECURSIVE View(_, _, _)
\* Every entry of the nested dict id of heap h: its path below prefix,
\* whether it is a nested dict, and the value of a leaf entry.
View(h, id, prefix) ==
  UNION {LET p == Append(prefix, k)
             v == h[id][k]
         IN IF v.tag = "dict"
              THEN {[path |-> p, dict |-> TRUE, val |-> NoneV]}
                   \cup View(h, v.n, p)
              ELSE {[path |-> p, dict |-> FALSE, val |-> v]}
         : k \in DOMAIN h[id]}

RECURSIVE TreeView(_, _, _)
\* The same for a definition: containers as nested dicts, each descriptor's
\* default at its leaf.
TreeView(items, prefix, i) ==
  IF i > Len(items) THEN {}
  ELSE LET p == Append(prefix, items[i].key)
           v == items[i].val
       IN (IF v.kind = "dict"
             THEN {[path |-> p, dict |-> TRUE, val |-> NoneV]}
                  \cup TreeView(v.items, p, 1)
             ELSE {[path |-> p, dict |-> FALSE, val |-> v.default]})
          \cup TreeView(items, prefix, i + 1)

RECURSIVE Nodes(_, _)
\* Every node of a definition, at any depth.
Nodes(items, i) ==
  IF i > Len(items) THEN {}
  ELSE {items[i].val} \cup Nodes(items[i].val.items, 1) \cup Nodes(items, i + 1)

\* This step performed operation op (stuttering steps perform none).
Did(op) == nops' = nops + 1 /\ lastOp'.op = op

(* ---------------------------------------------------------------- claims *)

\* C1: once DEFINE_dict has returned, after any sequence of leaf value
\* changes (parsed overrides and assignments, of single-valued and
\* repeatable leaves), the shared dict holds at every leaf's path the current
\* value of that leaf's flag.
C1_WriteThrough ==
  Returned => \A name \in LeafNames : MapAt(name) = registry[name].value

\* C1's case: a nested leaf whose value was changed away from its default.
C1_Witness ==
  /\ Returned
  /\ \E name \in LeafNames :
       /\ Len(PathOf(name)) = 2
       /\ registry[name].value # registry[name].default
       /\ lastOp.op = "set_value"
       /\ supplied[name] # <<>>
       /\ MapAt(name) = registry[name].value

\* C2: a parsed override of leaf L changes the shared dict at L's path only:
\* every other entry, every container's keys and the nesting are as before,
\* and L's path still holds a leaf entry.
C2_OverrideFrame ==
  [][Did("parse") =>
       LET here == PathOf(lastOp'.name)
           before == View(heap, shared, <<>>)
           after == View(heap', shared', <<>>)
       IN /\ {e \in before : e.path # here} = {e \in after : e.path # here}
          /\ {e.path : e \in before} = {e.path : e \in after}
          /\ \A e \in after : e.path = here => ~e.dict]_vars

\* C2's case: one of several leaves, a nested one, was overridden and the
\* entry at its path changed.
C2_Witness ==
  /\ lastOp.op = "parse"
  /\ lastOp.err = ""
  /\ Cardinality(LeafNames) >= 2
  /\ Len(PathOf(lastOp.name)) = 2
  /\ MapAt(lastOp.name) # registry[lastOp.name].default

\* C3: when DEFINE_dict has returned and nothing was overridden yet, the dict
\* the returned handle exposes has exactly the keys and nesting of the
\* definition and holds every descriptor's default at its leaf path.
C3_InitialState ==
  (Returned /\ nops = 0) =>
    View(heap, registry[args[1]].value.n, <<>>) = TreeView(kwargs, <<>>, 1)

\* C3's case: a definition with a nested dict, a parsed default, an unset
\* default and a key that holds a dot.
C3_Witness ==
  /\ Returned
  /\ nops = 0
  /\ kwargs = <<[key |-> KeyA,
                 val |-> DictNode(<<[key |-> KeyC,
                                     val |-> Integer(StrV("7"))]>>)],
                [key |-> KeyAB, val |-> Integer(NoneV)]>>
  /\ View(heap, shared, <<>>) =
       {[path |-> <<KeyA>>, dict |-> TRUE, val |-> NoneV],
        [path |-> <<KeyA, KeyC>>, dict |-> FALSE, val |-> IntV(7)],
        [path |-> <<KeyAB>>, dict |-> FALSE, val |-> NoneV]}

\* C4: from the return of DEFINE_dict on, the root flag's value is the one
\* shared dict define_flags built, and the dict every leaf flag writes
\* through leads to that same dict.
C4_SingleInstance ==
  Returned =>
    /\ registry[args[1]].value = DictRef(shared)
    /\ \A name \in LeafNames :
         heap[registry[name].shared_dict][args[1]] = DictRef(shared)

\* C4's case: the root flag was overridden (accepted or rejected) after a
\* leaf override.
C4_Witness ==
  /\ Returned
  /\ lastOp.op = "parse_root"
  /\ lastOp.arg.tag = "dict"
  /\ lastOp.arg # DictRef(shared)
  /\ \E name \in LeafNames : supplied[name] # <<>>

\* C5: an override of the root flag with a value that is neither the shared
\* dict itself nor the empty string raises and changes neither the shared
\* dict nor any flag; with the empty string it raises nothing and leaves the
\* shared dict, its contents and every leaf flag as they were.
C5_RootOverride ==
  [][Did("parse_root") =>
       IF lastOp'.arg # DictRef(shared) /\ lastOp'.arg # _EMPTY
         THEN /\ lastOp'.err = "IllegalFlagValueError"
              /\ heap' = heap
              /\ registry' = registry
         ELSE /\ lastOp'.err = ""
              /\ registry'[args[1]].value = DictRef(shared)
              /\ View(heap', shared', <<>>) = View(heap, shared, <<>>)
              /\ \A name \in LeafNames : registry'[name] = registry[name]]_vars

\* C5's case: the empty string was accepted after a leaf override.
C5_Witness ==
  /\ lastOp.op = "parse_root"
  /\ lastOp.arg = _EMPTY
  /\ lastOp.err = ""
  /\ \E name \in LeafNames :
       supplied[name] # <<>> /\ MapAt(name) # registry[name].default

\* What a parsing pass that supplied the texts, in this order, leaves as the
\* value of a leaf flag: the last one parsed for a single-valued flag, all of
\* them parsed and in order for a repeatable one.
RECURSIVE ParsedAll(_, _)
ParsedAll(parser, texts) ==
  IF texts = <<>> THEN <<>>
  ELSE <<ParserParse(parser, StrV(texts[1])).s>>
       \o ParsedAll(parser, Tail(texts))

\* C6: during a parsing pass, a single-valued leaf overridden one or more
\* times holds the last supplied value at its path in the shared dict, and a
\* repeatable leaf holds the list of exactly the supplied values, in order.
C6_RepeatedOverrides ==
  pc = "parsing" =>
    \A name \in LeafNames :
      LET f == registry[name]
          texts == supplied[name]
      IN texts # <<>> =>
           MapAt(name) = IF f.cls = "_MultiFlag"
                           THEN ListV(ParsedAll(f.parser, texts))
                           ELSE ParserParse(f.parser, StrV(texts[Len(texts)]))

\* C6's case: in one pass a repeatable leaf with a default and a
\* single-valued leaf were each overridden twice, with different values.
C6_Witness ==
  /\ pc = "parsing"
  /\ \E name \in LeafNames :
       /\ registry[name].cls = "_MultiFlag"
       /\ registry[name].default # NoneV
       /\ Len(supplied[name]) = 2
       /\ supplied[name][1] # supplied[name][2]
       /\ MapAt(name) = ListV(supplied[name])
  /\ \E name \in LeafNames :
       /\ registry[name].cls = "_ItemFlag"
       /\ supplied[name] = <<"1", "2">>
       /\ MapAt(name) = IntV(2)

\* C7: a DEFINE_dict call whose definition holds no leaf descriptor at any
\* depth raises, and registers neither a leaf flag nor the root flag.
C7_NoLeafRaises ==
  (\A v \in Nodes(kwargs, 1) : v.kind \notin {"Item", "MultiItem"}) =>
    /\ ~Returned
    /\ registry = EmptyRegistry

\* The namespaces of the leaves of the definition, in traversal order.
LeafNamespaces == recursively_define_flags(<<args[1]>>, DictNode(kwargs))

\* C8: for a definition DEFINE_dict accepted, the dotted names of distinct
\* leaf paths are distinct and none is the root flag's name, so every leaf
\* and the root have a flag of their own.
C8_UniqueNames ==
  Returned =>
    /\ \A i, j \in 1..Len(LeafNamespaces) :
         i # j => Join(LeafNamespaces[i].namespace)
                  # Join(LeafNamespaces[j].namespace)
    /\ \A i \in 1..Len(LeafNamespaces) :
         Join(LeafNamespaces[i].namespace) # args[1]
    /\ Cardinality(DOMAIN registry) = Len(LeafNamespaces) + 1

\* C8's case: an accepted definition with a key that holds the separator
\* next to a nested dict under the key's first part.
C8_Witness ==
  /\ Returned
  /\ Len(kwargs) = 2
  /\ kwargs[1].val.kind = "dict"
  /\ kwargs[1].val.items # <<>>
  /\ kwargs[2].key = KeyAB
  /\ Join(<<args[1], KeyAB>>) \in DOMAIN registry
  /\ Join(<<args[1], KeyA, KeyC>>) \in DOMAIN registry

\* C9: when a node of the definition, anywhere, is neither a dict nor a
\* descriptor, DEFINE_dict raises and no flag of the definition is ever
\* registered, not even for the leaves before that node.
C9_InvalidNodeFailsFast ==
  (\E v \in Nodes(kwargs, 1) : v.kind = "other") =>
    /\ registry = EmptyRegistry
    /\ pc \in {"start", "raised"}
    /\ pc = "raised" => lastOp.err \in {"TypeError", "ValueError"}

\* C9's case: the TypeError for an invalid node that follows a leaf, in a
\* nested dict.
C9_Witness ==
  /\ pc = "raised"
  /\ lastOp.err = "TypeError"
  /\ registry = EmptyRegistry
  /\ Len(kwargs) = 1
  /\ kwargs[1].val.kind = "dict"
  /\ Len(kwargs[1].val.items) = 2
  /\ kwargs[1].val.items[1].val.kind = "Item"
  /\ kwargs[1].val.items[2].val.kind = "other"

\* This step changed the value of leaf flag name: an accepted override or an
\* assignment.
Changed(name) ==
  /\ Did("parse") \/ Did("set_value")
  /\ lastOp'.name = name
  /\ lastOp'.err = ""

\* C10: a write through the handle at a leaf's path changes no flag; the
\* entry then keeps the written value, and the flag its own, through every
\* step that does not change that flag's value, and the next change of that
\* flag's value puts the flag's value back at the path.
C10_OneDirectional ==
  [][/\ Did("handle_write") =>
          /\ registry' = registry
          /\ Lookup(heap', shared', PathOf(lastOp'.name)) = lastOp'.arg
     /\ \A name \in LeafNames :
          /\ Changed(name) =>
               Lookup(heap', shared', PathOf(name)) = registry'[name].value
          /\ (~Changed(name)
              /\ ~(Did("handle_write") /\ lastOp'.name = name)) =>
               /\ Lookup(heap', shared', PathOf(name)) = MapAt(name)
               /\ registry'[name].value = registry[name].value]_vars

\* C10's case: an entry written through the handle still differs from its
\* flag's value after an override of another flag.
C10_Witness ==
  /\ lastOp.op = "parse"
  /\ lastOp.err = ""
  /\ \E name \in LeafNames :
       /\ name # lastOp.name
       /\ MapAt(name) \in HandleValues
       /\ MapAt(name) # registry[name].value

====
